---- MODULE Spec2Model ----
(***************************************************************************)
(* A model of examples/python/validator.py: the Validator class with its   *)
(* two class attributes and its three methods, called by one or several    *)
(* callers.  A string is a sequence of Unicode code points.                *)
(***************************************************************************)
EXTENDS Integers, Sequences, FiniteSets, TLC

VARIABLES EMAIL_PATTERN, MIN_PASSWORD_LENGTH, callers, pool, pc, arg, ret

vars == <<EMAIL_PATTERN, MIN_PASSWORD_LENGTH, callers, pool, pc, arg, ret>>

(***************************************************************************)
(* Bounds of the model.                                                    *)
(***************************************************************************)
MaxLen == 3
MaxFill == 20
MaxEmailLen == 6
MaxCallers == 2

(***************************************************************************)
(* Code points.                                                            *)
(***************************************************************************)
NL == 10
PERCENT == 37
PLUS == 43
HYPHEN == 45
DOT == 46
AT == 64
UNDERSCORE == 95

UpperAZ == 65..90
LowerAZ == 97..122
Digits09 == 48..57

\* str.isalpha() of one character: the ASCII letters and, beyond ASCII, the
\* letters of Latin-1 (the Unicode categories L*, restricted to U+0000..U+00FF).
isalpha(c) ==
  \/ c \in UpperAZ
  \/ c \in LowerAZ
  \/ c \in {170, 181, 186}
  \/ (c \in 192..255 /\ c \notin {215, 247})

\* \d of a str pattern: any Unicode decimal digit (category Nd); ASCII,
\* Arabic-Indic and Extended Arabic-Indic digits are the blocks modelled.
UnicodeDigit(c) ==
  \/ c \in Digits09
  \/ c \in 1632..1641
  \/ c \in 1776..1785

\* re.search(r"[A-Z]", s), re.search(r"[a-z]", s), re.search(r"\d", s): some
\* character of s is in the class.
SearchUpper(s) == \E i \in 1..Len(s) : s[i] \in UpperAZ
SearchLower(s) == \E i \in 1..Len(s) : s[i] \in LowerAZ
SearchDigit(s) == \E i \in 1..Len(s) : UnicodeDigit(s[i])

\* $ without re.MULTILINE after k characters of s: at the end of the string,
\* or just before a newline that is the last character of the string.
DollarAt(s, k) ==
  \/ k = Len(s)
  \/ (k = Len(s) - 1 /\ s[Len(s)] = NL)

AllIn(s, lo, hi, S) == \A i \in lo..hi : s[i] \in S

\* The pattern with '@' admitted in the local part's class.
EmailPattern_at_in_local ==
  [local  |-> UpperAZ \cup LowerAZ \cup Digits09 \cup {DOT, UNDERSCORE, PERCENT, PLUS, HYPHEN, AT},
   domain |-> UpperAZ \cup LowerAZ \cup Digits09 \cup {DOT, HYPHEN},
   tld    |-> UpperAZ \cup LowerAZ,
   tldMin |-> 2]

\* re.compile(r"^[a-zA-Z0-9._%+-]+@[a-zA-Z0-9.-]+\.[a-zA-Z]{2,}$")
EmailPattern ==
  [local  |-> UpperAZ \cup LowerAZ \cup Digits09 \cup {DOT, UNDERSCORE, PERCENT, PLUS, HYPHEN},
   domain |-> UpperAZ \cup LowerAZ \cup Digits09 \cup {DOT, HYPHEN},
   tld    |-> UpperAZ \cup LowerAZ,
   tldMin |-> 2]

\* pattern.match(s) is not None: s[1..i] is the local part, s[i+1] the '@',
\* s[i+2..j] the domain, s[j+1] the '.', s[j+2..k] the last label, then $.
PatternMatch(p, s) ==
  \E i \in 1..Len(s) : \E j \in (i + 2)..Len(s) : \E k \in (j + 1 + p.tldMin)..Len(s) :
    /\ AllIn(s, 1, i, p.local)
    /\ s[i + 1] = AT
    /\ AllIn(s, i + 2, j, p.domain)
    /\ s[j + 1] = DOT
    /\ AllIn(s, j + 2, k, p.tld)
    /\ DollarAt(s, k)

\* The username pattern without its leading letter class: ^[a-zA-Z0-9_-]*$
UsernameMatch_no_leading_letter(s) ==
  \E k \in 0..Len(s) :
    /\ AllIn(s, 1, k, UpperAZ \cup LowerAZ \cup Digits09 \cup {UNDERSCORE, HYPHEN})
    /\ DollarAt(s, k)

\* re.match(r"^[a-zA-Z][a-zA-Z0-9_-]*$", s) is not None
UsernameMatch(s) ==
  \E k \in 1..Len(s) :
    /\ s[1] \in UpperAZ \cup LowerAZ
    /\ AllIn(s, 2, k, UpperAZ \cup LowerAZ \cup Digits09 \cup {UNDERSCORE, HYPHEN})
    /\ DollarAt(s, k)

(***************************************************************************)
(* What a call produces: a returned value or a raised exception.           *)
(***************************************************************************)
Return(f, v) == [fn |-> f, kind |-> "return", value |-> v]
Raise(f, e) == [fn |-> f, kind |-> "raise", value |-> e]
NoResult == [fn |-> "none", kind |-> "none", value |-> FALSE]

validate_email(pattern, email) ==
  IF Len(email) = 0 THEN Return("validate_email", FALSE)
  ELSE Return("validate_email", PatternMatch(pattern, email))

\* validate_password with the lowercase check ahead of the uppercase check.
validate_password_lower_first(minLength, password) ==
  IF Len(password) = 0
    THEN Return("validate_password", <<FALSE, "Password cannot be empty">>)
  ELSE IF Len(password) < minLength
    THEN Return("validate_password",
                <<FALSE, "Password must be at least " \o ToString(minLength) \o " characters">>)
  ELSE IF ~SearchLower(password)
    THEN Return("validate_password",
                <<FALSE, "Password must contain at least one lowercase letter">>)
  ELSE IF ~SearchUpper(password)
    THEN Return("validate_password",
                <<FALSE, "Password must contain at least one uppercase letter">>)
  ELSE IF ~SearchDigit(password)
    THEN Return("validate_password",
                <<FALSE, "Password must contain at least one digit">>)
  ELSE Return("validate_password", <<TRUE, "Password is valid">>)

\* validate_password with len(password) <= MIN_PASSWORD_LENGTH as its length check.
validate_password_length_le(minLength, password) ==
  IF Len(password) = 0
    THEN Return("validate_password", <<FALSE, "Password cannot be empty">>)
  ELSE IF Len(password) <= minLength
    THEN Return("validate_password",
                <<FALSE, "Password must be at least " \o ToString(minLength) \o " characters">>)
  ELSE IF ~SearchUpper(password)
    THEN Return("validate_password",
                <<FALSE, "Password must contain at least one uppercase letter">>)
  ELSE IF ~SearchLower(password)
    THEN Return("validate_password",
                <<FALSE, "Password must contain at least one lowercase letter">>)
  ELSE IF ~SearchDigit(password)
    THEN Return("validate_password",
                <<FALSE, "Password must contain at least one digit">>)
  ELSE Return("validate_password", <<TRUE, "Password is valid">>)

\* validate_password whose digit check returns the message of the last line.
validate_password_digit_message(minLength, password) ==
  IF Len(password) = 0
    THEN Return("validate_password", <<FALSE, "Password cannot be empty">>)
  ELSE IF Len(password) < minLength
    THEN Return("validate_password",
                <<FALSE, "Password must be at least " \o ToString(minLength) \o " characters">>)
  ELSE IF ~SearchUpper(password)
    THEN Return("validate_password",
                <<FALSE, "Password must contain at least one uppercase letter">>)
  ELSE IF ~SearchLower(password)
    THEN Return("validate_password",
                <<FALSE, "Password must contain at least one lowercase letter">>)
  ELSE IF ~SearchDigit(password)
    THEN Return("validate_password", <<FALSE, "Password is valid">>)
  ELSE Return("validate_password", <<TRUE, "Password is valid">>)

validate_password(minLength, password) ==
  IF Len(password) = 0
    THEN Return("validate_password", <<FALSE, "Password cannot be empty">>)
  ELSE IF Len(password) < minLength
    THEN Return("validate_password",
                <<FALSE, "Password must be at least " \o ToString(minLength) \o " characters">>)
  ELSE IF ~SearchUpper(password)
    THEN Return("validate_password",
                <<FALSE, "Password must contain at least one uppercase letter">>)
  ELSE IF ~SearchLower(password)
    THEN Return("validate_password",
                <<FALSE, "Password must contain at least one lowercase letter">>)
  ELSE IF ~SearchDigit(password)
    THEN Return("validate_password",
                <<FALSE, "Password must contain at least one digit">>)
  ELSE Return("validate_password", <<TRUE, "Password is valid">>)

\* validate_username with len(username) >= 20 as its upper length check.
validate_username_length_ge(username) ==
  IF Len(username) = 0 THEN Return("validate_username", FALSE)
  ELSE IF Len(username) < 3 \/ Len(username) >= 20 THEN Return("validate_username", FALSE)
  ELSE IF ~(0 < Len(username)) THEN Raise("validate_username", "IndexError")
  ELSE IF ~isalpha(username[1]) THEN Return("validate_username", FALSE)
  ELSE Return("validate_username", UsernameMatch(username))

\* validate_username reading username[0] before the emptiness and length checks.
validate_username_index_first(username) ==
  IF ~(0 < Len(username)) THEN Raise("validate_username", "IndexError")
  ELSE IF ~isalpha(username[1]) THEN Return("validate_username", FALSE)
  ELSE IF Len(username) < 3 \/ Len(username) > 20 THEN Return("validate_username", FALSE)
  ELSE Return("validate_username", UsernameMatch(username))

validate_username(username) ==
  IF Len(username) = 0 THEN Return("validate_username", FALSE)
  ELSE IF Len(username) < 3 \/ Len(username) > 20 THEN Return("validate_username", FALSE)
  ELSE IF ~(0 < Len(username)) THEN Raise("validate_username", "IndexError")
  ELSE IF ~isalpha(username[1]) THEN Return("validate_username", FALSE)
  ELSE Return("validate_username", UsernameMatch(username))

(***************************************************************************)
(* The strings the callers pass.                                           *)
(***************************************************************************)
Alphabet == {65, 97, 48, UNDERSCORE, HYPHEN, DOT, AT, PERCENT, NL, 32, 233, 1635}
EmailAlphabet == {97, AT, DOT}
FillChars == {65, 97, 48}

Strs(A, n) == UNION {[1..k -> A] : k \in 0..n}
Rep(c, n) == [i \in 1..n |-> c]
OneOrNone(A) == Strs(A, 1)

ShortInputs == Strs(Alphabet, MaxLen)
PaddedInputs ==
  {h \o Rep(c, n) \o t : h \in OneOrNone(Alphabet), c \in FillChars,
                         n \in 0..MaxFill, t \in OneOrNone(Alphabet)}
EmailInputs ==
  {b \o t : b \in Strs(EmailAlphabet, MaxEmailLen), t \in OneOrNone(Alphabet)}
Inputs == ShortInputs \cup PaddedInputs \cup EmailInputs

ConcInputs ==
  {<<>>, <<97, 64, 97, 46, 97, 97>>, <<65, 97, 97, 97, 97, 97, 97, 48>>, <<97, 97, 10>>}

Functions == {"validate_email", "validate_password", "validate_username"}

(***************************************************************************)
(* The state machine.                                                      *)
(***************************************************************************)
ClassInit ==
  /\ EMAIL_PATTERN = EmailPattern
  /\ MIN_PASSWORD_LENGTH = 8

CallersInit(n) ==
  /\ callers = 1..n
  /\ pc = [t \in 1..n |-> "idle"]
  /\ arg = [t \in 1..n |-> <<>>]
  /\ ret = [t \in 1..n |-> NoResult]

\* One caller holding one string of Inputs.
Init ==
  /\ ClassInit
  /\ CallersInit(1)
  /\ \E s \in Inputs : pool = {s}

\* MaxCallers concurrent callers sharing one or two strings of ConcInputs.
InitConc ==
  /\ ClassInit
  /\ CallersInit(MaxCallers)
  /\ \E x \in ConcInputs, y \in ConcInputs : pool = {x, y}

\* A caller invokes validator.<f>(s).
Call(t) ==
  /\ pc[t] = "idle"
  /\ \E f \in Functions, s \in pool :
       /\ pc' = [pc EXCEPT ![t] = f]
       /\ arg' = [arg EXCEPT ![t] = s]
  /\ ret' = [ret EXCEPT ![t] = NoResult]
  /\ UNCHANGED <<EMAIL_PATTERN, MIN_PASSWORD_LENGTH, callers, pool>>

ValidateEmail(t) ==
  /\ pc[t] = "validate_email"
  /\ ret' = [ret EXCEPT ![t] = validate_email(EMAIL_PATTERN, arg[t])]
  /\ pc' = [pc EXCEPT ![t] = "idle"]
  /\ UNCHANGED <<EMAIL_PATTERN, MIN_PASSWORD_LENGTH, callers, pool, arg>>

\* validate_password raising the class attribute MIN_PASSWORD_LENGTH as it returns.
ValidatePassword_raising_minimum(t) ==
  /\ pc[t] = "validate_password"
  /\ ret' = [ret EXCEPT ![t] = validate_password(MIN_PASSWORD_LENGTH, arg[t])]
  /\ pc' = [pc EXCEPT ![t] = "idle"]
  /\ MIN_PASSWORD_LENGTH' = MIN_PASSWORD_LENGTH + 1
  /\ UNCHANGED <<EMAIL_PATTERN, callers, pool, arg>>

ValidatePassword(t) ==
  /\ pc[t] = "validate_password"
  /\ ret' = [ret EXCEPT ![t] = validate_password(MIN_PASSWORD_LENGTH, arg[t])]
  /\ pc' = [pc EXCEPT ![t] = "idle"]
  /\ UNCHANGED <<EMAIL_PATTERN, MIN_PASSWORD_LENGTH, callers, pool, arg>>

ValidateUsername(t) ==
  /\ pc[t] = "validate_username"
  /\ ret' = [ret EXCEPT ![t] = validate_username(arg[t])]
  /\ pc' = [pc EXCEPT ![t] = "idle"]
  /\ UNCHANGED <<EMAIL_PATTERN, MIN_PASSWORD_LENGTH, callers, pool, arg>>

Next ==
  \/ \E t \in callers : Call(t)
  \/ \E t \in callers : ValidateEmail(t)
  \/ \E t \in callers : ValidatePassword(t)
  \/ \E t \in callers : ValidateUsername(t)

Spec == Init /\ [][Next]_vars
SpecConc == InitConc /\ [][Next]_vars

(***************************************************************************)
(* The properties.  Returned(t, f): caller t holds the result of its call  *)
(* of f on arg[t].                                                         *)
(***************************************************************************)
Returned(t, f) == pc[t] = "idle" /\ ret[t].fn = f

AsciiLetters == UpperAZ \cup LowerAZ

\* The five password checks in the stated order: <<i>> is TRUE when check i fails.
PasswordFails(s) ==
  <<Len(s) = 0,
    Len(s) < 8,
    ~\E i \in 1..Len(s) : s[i] \in UpperAZ,
    ~\E i \in 1..Len(s) : s[i] \in LowerAZ,
    ~\E i \in 1..Len(s) : UnicodeDigit(s[i])>>

PasswordReasons ==
  <<"Password cannot be empty",
    "Password must be at least 8 characters",
    "Password must contain at least one uppercase letter",
    "Password must contain at least one lowercase letter",
    "Password must contain at least one digit">>

FailingChecks(s) == {i \in 1..5 : PasswordFails(s)[i]}
FirstFailing(s) == CHOOSE i \in FailingChecks(s) : \A j \in FailingChecks(s) : i <= j

\* C1: validate_password reports the first check, in the order empty, length < 8,
\* no A-Z, no a-z, no decimal digit, that fails, whatever later checks fail too;
\* and it returns (false, "Password cannot be empty") iff the string is empty.
C1_FirstFailingCheckDecides ==
  \A t \in callers :
    Returned(t, "validate_password") =>
      /\ ret[t].kind = "return"
      /\ FailingChecks(arg[t]) # {} =>
           ret[t].value = <<FALSE, PasswordReasons[FirstFailing(arg[t])]>>
      /\ (ret[t].value = <<FALSE, "Password cannot be empty">>) <=> (arg[t] = <<>>)

\* A password of full length that fails the uppercase check and a later one.
C1_Witness ==
  \E t \in callers :
    /\ Returned(t, "validate_password")
    /\ Len(arg[t]) >= 8
    /\ Cardinality(FailingChecks(arg[t])) >= 2
    /\ ret[t].value[2] = "Password must contain at least one uppercase letter"

\* The whole string is local@domain.tld, nothing left over at either end.
WholeStringEmail(s) ==
  \E i \in 1..Len(s) : \E j \in (i + 2)..(Len(s) - 3) :
    /\ \A n \in 1..i : s[n] \in AsciiLetters \cup Digits09 \cup {DOT, UNDERSCORE, PERCENT, PLUS, HYPHEN}
    /\ s[i + 1] = AT
    /\ \A n \in (i + 2)..j : s[n] \in AsciiLetters \cup Digits09 \cup {DOT, HYPHEN}
    /\ s[j + 1] = DOT
    /\ \A n \in (j + 2)..Len(s) : s[n] \in AsciiLetters

\* C2: validate_email returns true iff the entire string, first character to
\* last, has the form local@domain.tld; false for the empty string.
C2_EmailWholeString ==
  \A t \in callers :
    Returned(t, "validate_email") =>
      ret[t] = Return("validate_email", arg[t] # <<>> /\ WholeStringEmail(arg[t]))

WellFormedUsername(s) ==
  /\ Len(s) >= 1
  /\ s[1] \in AsciiLetters
  /\ \A n \in 2..Len(s) : s[n] \in AsciiLetters \cup Digits09 \cup {UNDERSCORE, HYPHEN}

\* C3: validate_username returns true only if the entire string is a letter
\* A-Z/a-z followed by letters, digits, underscores or hyphens; a string with any
\* other character at any position, the last included, is rejected.
C3_UsernameWholeString ==
  \A t \in callers :
    (Returned(t, "validate_username") /\ ret[t].value = TRUE) => WellFormedUsername(arg[t])

\* C4: validate_password returns validity true exactly when the string has
\* length >= 8 and contains a character in A-Z, one in a-z and a decimal digit.
C4_PasswordValidExactly ==
  \A t \in callers :
    Returned(t, "validate_password") =>
      /\ ret[t].kind = "return"
      /\ ret[t].value[1] <=>
           /\ Len(arg[t]) >= 8
           /\ \E i \in 1..Len(arg[t]) : arg[t][i] \in UpperAZ
           /\ \E i \in 1..Len(arg[t]) : arg[t][i] \in LowerAZ
           /\ \E i \in 1..Len(arg[t]) : UnicodeDigit(arg[t][i])

\* A password of length exactly 8 is accepted.
C4_Witness ==
  \E t \in callers :
    /\ Returned(t, "validate_password")
    /\ Len(arg[t]) = 8
    /\ ret[t].value[1] = TRUE

\* C5: on a letter followed only by letters, digits, underscores or hyphens,
\* validate_username returns true iff the length is between 3 and 20 inclusive.
C5_UsernameLengthBounds ==
  \A t \in callers :
    (Returned(t, "validate_username") /\ WellFormedUsername(arg[t])) =>
      ret[t] = Return("validate_username", Len(arg[t]) >= 3 /\ Len(arg[t]) <= 20)

\* A well-formed username of length exactly 20 is accepted.
C5_Witness ==
  \E t \in callers :
    /\ Returned(t, "validate_username")
    /\ WellFormedUsername(arg[t])
    /\ Len(arg[t]) = 20
    /\ ret[t].value = TRUE

\* C6: validity is true iff the reason is exactly "Password is valid", and when
\* validity is false the reason is one of the five fixed failure messages.
C6_ReasonMatchesValidity ==
  \A t \in callers :
    Returned(t, "validate_password") =>
      /\ ret[t].kind = "return"
      /\ ret[t].value[1] <=> (ret[t].value[2] = "Password is valid")
      /\ ~ret[t].value[1] => \E i \in 1..5 : ret[t].value[2] = PasswordReasons[i]

\* A password is rejected for its missing digit.
C6_Witness ==
  \E t \in callers :
    /\ Returned(t, "validate_password")
    /\ ret[t].value = <<FALSE, "Password must contain at least one digit">>

\* C7: every call of a validator on any string, the empty one included, ends,
\* raises nothing and returns a defined value: a boolean for validate_email and
\* validate_username, a (boolean, string) pair for validate_password.
C7_TotalNoRaise ==
  \A t \in callers :
    /\ ret[t].kind # "raise"
    /\ pc[t] = "validate_email" => ENABLED ValidateEmail(t)
    /\ pc[t] = "validate_password" => ENABLED ValidatePassword(t)
    /\ pc[t] = "validate_username" => ENABLED ValidateUsername(t)
    /\ Returned(t, "validate_email") => ret[t].value \in BOOLEAN
    /\ Returned(t, "validate_username") => ret[t].value \in BOOLEAN
    /\ Returned(t, "validate_password") =>
         /\ Len(ret[t].value) = 2
         /\ ret[t].value[1] \in BOOLEAN
         /\ ret[t].value[2] \in STRING

\* validate_username has returned on the empty string.
C7_Witness ==
  \E t \in callers :
    /\ Returned(t, "validate_username")
    /\ arg[t] = <<>>
    /\ ret[t].value = FALSE

\* C8: the result of a call depends only on its own argument: two callers
\* holding results of the same validator on the same string hold the same
\* result, and no call changes EMAIL_PATTERN or MIN_PASSWORD_LENGTH.
C8_ResultDependsOnArgumentOnly ==
  /\ EMAIL_PATTERN = EmailPattern
  /\ MIN_PASSWORD_LENGTH = 8
  /\ \A t \in callers, u \in callers :
       (pc[t] = "idle" /\ pc[u] = "idle" /\ ret[t].fn # "none"
          /\ ret[t].fn = ret[u].fn /\ arg[t] = arg[u]) => ret[t] = ret[u]

\* Two callers hold results of validate_password on the same 8-character string.
C8_Witness ==
  \E t \in callers, u \in callers :
    /\ t # u
    /\ Returned(t, "validate_password")
    /\ Returned(u, "validate_password")
    /\ arg[t] = arg[u]
    /\ Len(arg[t]) = 8

\* validate_username with its step 3, the first-character check, removed.
validate_username_without_step3(username) ==
  IF Len(username) = 0 THEN Return("validate_username", FALSE)
  ELSE IF Len(username) < 3 \/ Len(username) > 20 THEN Return("validate_username", FALSE)
  ELSE Return("validate_username", UsernameMatch(username))

\* C9: validate_username with the first-character check removed returns the
\* same result as validate_username on every string.
C9_FirstCharCheckRedundant ==
  \A t \in callers :
    Returned(t, "validate_username") => ret[t] = validate_username_without_step3(arg[t])

\* validate_username has rejected a string of admissible length at step 3.
C9_Witness ==
  \E t \in callers :
    /\ Returned(t, "validate_username")
    /\ Len(arg[t]) >= 3
    /\ Len(arg[t]) <= 20
    /\ ~isalpha(arg[t][1])
    /\ ret[t].value = FALSE

AtPositions(s) == {i \in 1..Len(s) : s[i] = AT}

\* C10: every string validate_email accepts has exactly one '@', at least one
\* character before it and, after it, a '.' followed by at least two letters.
C10_AcceptedEmailHasOneAt ==
  \A t \in callers :
    (Returned(t, "validate_email") /\ ret[t].value = TRUE) =>
      /\ Cardinality(AtPositions(arg[t])) = 1
      /\ \A a \in AtPositions(arg[t]) :
           /\ a > 1
           /\ \E j \in (a + 1)..(Len(arg[t]) - 2) :
                /\ arg[t][j] = DOT
                /\ arg[t][j + 1] \in AsciiLetters
                /\ arg[t][j + 2] \in AsciiLetters

\* validate_email has accepted a string.
C10_Witness ==
  \E t \in callers :
    /\ Returned(t, "validate_email")
    /\ ret[t].value = TRUE
    /\ Cardinality(AtPositions(arg[t])) = 1

====
